---- MODULE Spec2Model ----
(***************************************************************************)
(* A model of ocrcvrt (src/main.py): the batch converter that scans root   *)
(* directories for raster images and rewrites the ones that are not in an  *)
(* OCR-friendly container as PNG or TIFF.                                  *)
(*                                                                         *)
(* Paths are pathlib paths: a sequence of components, the first being the  *)
(* anchor "/" when the path is absolute.  A component (a file name) is a   *)
(* sequence of tokens; "." and "_" are tokens of their own, so that the    *)
(* suffix, the stem and the renamings of pathlib are computed on the name  *)
(* the way pathlib computes them on the characters.  Pixel data, colour    *)
(* modes, EXIF and DPI are not modelled: a file is a path with a kind, and *)
(* an image that cannot be decoded is a member of `corrupt`.               *)
(***************************************************************************)
EXTENDS Integers, Sequences, FiniteSets, TLC

VARIABLES
    fs,             \* the disk: a function from absolute path to "file", "dir" or "other"
    corrupt,        \* the files whose image data Pillow cannot decode
    args,           \* the parsed command line of main()
    environ,        \* the value of WORKING_DIR
    csvFile,        \* the manifest args.csv names: whether it exists, and its rows
    pc,             \* where the program is
    root_dirs,      \* main: the resolved list of roots
    rootIdx,        \* main: the position of `for root_dir in root_dirs`
    gen,            \* the state of the iter_candidate_files generator
    candidates,     \* main: what `for file_path in candidates` still has to give
    file_path,      \* main: the candidate of the current iteration, or None
    total,          \* main: counter
    converted,      \* main: counter
    skipped,        \* main: counter
    stdout,         \* the lines printed to standard output
    stderr,         \* the lines printed to standard error
    writes,         \* history: every file saved, with what was at its path before
    fs0,            \* history: the disk when the program started
    firstRun,       \* history: the result of an earlier run from the same disk
    call,           \* the arguments of the function under call (unit driver)
    returned        \* history: the values the function under call returned

vars == <<fs, corrupt, args, environ, csvFile, pc, root_dirs, rootIdx, gen,
          candidates, file_path, total, converted, skipped, stdout, stderr,
          writes, fs0, firstRun, call, returned>>

-----------------------------------------------------------------------------
(* pathlib *)

None == <<>>
Anchor == <<"/">>

Max(S) == CHOOSE m \in S : \A n \in S : n <= m

\* str.lower(), on the tokens of a name.
Lower(tok) ==
    CASE tok = "JPG" -> "jpg"
      [] tok = "PNG" -> "png"
      [] tok = "TIF" -> "tif"
      [] tok = "Path" -> "path"
      [] tok = "PATH" -> "path"
      [] OTHER -> tok

LowerSeq(s) == [i \in DOMAIN s |-> Lower(s[i])]

IsAbsolute(p) == Len(p) > 0 /\ p[1] = Anchor

\* Path.name: the last component, empty for the anchor and for the empty path.
PathName(p) == IF Len(p) = 0 \/ p = <<Anchor>> THEN <<>> ELSE p[Len(p)]

\* name.rfind("."), counted from 1; 0 when there is none.
RFindDot(name) ==
    LET I == {i \in 1..Len(name) : name[i] = "."}
    IN  IF I = {} THEN 0 ELSE Max(I)

\* PurePath.suffix: from the last dot, unless it leads or ends the name.
Suffix(name) ==
    LET i == RFindDot(name)
    IN  IF 1 < i /\ i < Len(name) THEN SubSeq(name, i, Len(name)) ELSE <<>>

\* PurePath.stem
Stem(name) ==
    LET i == RFindDot(name)
    IN  IF 1 < i /\ i < Len(name) THEN SubSeq(name, 1, i - 1) ELSE name

\* PurePath.with_name
WithName(p, name) == [p EXCEPT ![Len(p)] = name]

\* PurePath.with_suffix: the old suffix is cut off and the new one appended.
WithSuffix(p, ext) ==
    LET name == PathName(p)
        old == Suffix(name)
    IN  WithName(p, SubSeq(name, 1, Len(name) - Len(old)) \o ext)

IsPrefix(r, p) == Len(r) <= Len(p) /\ SubSeq(p, 1, Len(r)) = r

Parent(p) == SubSeq(p, 1, Len(p) - 1)

-----------------------------------------------------------------------------
(* the disk *)

\* The working directory relative paths are resolved against.
Cwd == <<Anchor, <<"data">>>>

Abs(p) == IF IsAbsolute(p) THEN p ELSE Cwd \o p

Exists(p, disk) == Abs(p) \in DOMAIN disk
IsFile(p, disk) == Exists(p, disk) /\ disk[Abs(p)] = "file"
IsDir(p, disk) == Exists(p, disk) /\ disk[Abs(p)] = "dir"

Prefixes(p) == {SubSeq(p, 1, n) : n \in 1..Len(p)}

\* Path.mkdir(parents=True, exist_ok=True) succeeds unless something on the
\* way is there and is no directory.
MkdirOk(d, disk) == \A q \in Prefixes(Abs(d)) : q \in DOMAIN disk => disk[q] = "dir"

Mkdir(d, disk) ==
    [q \in DOMAIN disk \cup Prefixes(Abs(d)) |->
        IF q \in DOMAIN disk THEN disk[q] ELSE "dir"]

\* Image.save opens the destination for writing: it cannot be a directory.
SaveOk(p, disk) == ~IsDir(p, disk) /\ IsDir(Parent(Abs(p)), disk)

Save(p, disk) ==
    [q \in DOMAIN disk \cup {Abs(p)} |-> IF q = Abs(p) THEN "file" ELSE disk[q]]

\* Image.open followed by im.load()
CanDecode(p, disk, bad) == IsFile(p, disk) /\ Abs(p) \notin bad

-----------------------------------------------------------------------------
(* the classifier and the resolver *)

Ext(e) == <<".", e>>

OCR_FRIENDLY_EXTENSIONS ==
    {Ext("png"), Ext("tif"), Ext("tiff"), Ext("pbm"), Ext("pgm"), Ext("ppm")}

RASTER_IMAGE_EXTENSIONS ==
    {Ext("jpg"), Ext("jpeg"), Ext("png"), Ext("tif"), Ext("tiff"), Ext("bmp"),
     Ext("webp"), Ext("heic"), Ext("heif")}

is_ocr_friendly(p) == LowerSeq(Suffix(PathName(p))) \in OCR_FRIENDLY_EXTENSIONS

\* line 109
NormExt(target_ext) ==
    IF Len(target_ext) > 0 /\ target_ext[1] = "." THEN target_ext
    ELSE <<".">> \o target_ext

\* lines 112-118: the source relative to the root, or only its file name
\* when there is no root, the source is relative, or it is not under the root.
MirrorRelDropsDirs(src, root_dir) == <<PathName(src)>>

MirrorRel(src, root_dir) ==
    IF root_dir # None /\ IsAbsolute(src)
    THEN IF IsPrefix(root_dir, src)
         THEN SubSeq(src, Len(root_dir) + 1, Len(src))
         ELSE <<PathName(src)>>
    ELSE <<PathName(src)>>

\* lines 110-121: the destination before any renaming.
Computed(src, root_dir, out_dir, target_ext) ==
    IF out_dir # None
    THEN out_dir \o WithSuffix(MirrorRel(src, root_dir), NormExt(target_ext))
    ELSE WithSuffix(src, NormExt(target_ext))

\* line 125
WithOcr(p) ==
    WithName(p, Stem(PathName(p)) \o <<"_", "ocr">> \o Suffix(PathName(p)))

\* line 130
WithIdx(p, idx) ==
    WithName(p, Stem(PathName(p)) \o <<"_", ToString(idx)>> \o Suffix(PathName(p)))

CandidateNoGuard(src, root_dir, out_dir, target_ext) ==
    Computed(src, root_dir, out_dir, target_ext)

\* lines 109-125
Candidate(src, root_dir, out_dir, target_ext) ==
    LET c == Computed(src, root_dir, out_dir, target_ext)
    IN  IF c = src THEN WithOcr(c) ELSE c

ProbeOnce(candidate, final_path, idx, disk) ==
    IF Exists(final_path, disk) THEN WithIdx(candidate, idx) ELSE final_path

ProbeNone(candidate, final_path, idx, disk) == final_path

\* lines 127-132: the while loop, entered with idx = 1 and final_path = candidate.
RECURSIVE Probe(_, _, _, _)
Probe(candidate, final_path, idx, disk) ==
    IF Exists(final_path, disk)
    THEN Probe(candidate, WithIdx(candidate, idx), idx + 1, disk)
    ELSE final_path

derive_output_path(src, root_dir, out_dir, target_ext, disk) ==
    LET candidate == Candidate(src, root_dir, out_dir, target_ext)
    IN  Probe(candidate, candidate, 1, disk)

\* line 152
TargetExt(output_format) == IF output_format = "PNG" THEN Ext("png") ELSE Ext("tiff")

ConvertAlways(src, output_format, root_dir, output_dir, disk, bad) ==
    LET output_path ==
            derive_output_path(src, root_dir, output_dir, TargetExt(output_format), disk)
    IN  [raised |-> FALSE, path |-> output_path, changed |-> TRUE,
         resolved |-> TRUE, opened |-> TRUE,
         disk |-> Save(output_path, Mkdir(Parent(output_path), disk))]

\* convert_to_ocr_friendly: what it returns or that it raised, the disk it
\* leaves, and whether it resolved a destination and opened the image.
convert_to_ocr_friendly(src, output_format, root_dir, output_dir, disk, bad) ==
    IF is_ocr_friendly(src)
    THEN [raised |-> FALSE, path |-> src, changed |-> FALSE,
          resolved |-> FALSE, opened |-> FALSE, disk |-> disk]
    ELSE
    LET output_path ==
            derive_output_path(src, root_dir, output_dir, TargetExt(output_format), disk)
        failed(d, o) == [raised |-> TRUE, path |-> None, changed |-> FALSE,
                         resolved |-> TRUE, opened |-> o, disk |-> d]
    IN  IF ~CanDecode(src, disk, bad) THEN failed(disk, FALSE)
        ELSE IF ~MkdirOk(Parent(output_path), disk) THEN failed(disk, TRUE)
        ELSE LET made == Mkdir(Parent(output_path), disk)
             IN  IF ~SaveOk(output_path, made) THEN failed(made, TRUE)
                 ELSE [raised |-> FALSE, path |-> output_path, changed |-> TRUE,
                       resolved |-> TRUE, opened |-> TRUE,
                       disk |-> Save(output_path, made)]

-----------------------------------------------------------------------------
(* load_directories_from_csv *)

NoFile == [exists |-> FALSE, rows |-> <<>>]
Manifest(rows) == [exists |-> TRUE, rows |-> rows]

\* str.strip(), on the tokens of a cell: " " is whitespace.
RECURSIVE LStrip(_)
LStrip(c) == IF Len(c) > 0 /\ c[1] = " " THEN LStrip(Tail(c)) ELSE c

RECURSIVE RStrip(_)
RStrip(c) ==
    IF Len(c) > 0 /\ c[Len(c)] = " " THEN RStrip(SubSeq(c, 1, Len(c) - 1)) ELSE c

Strip(c) == RStrip(LStrip(c))

StartsWithHash(c) == Len(c) > 0 /\ c[1] = "#"

\* Path(text).expanduser().resolve(): the texts that name a place on the
\* disk, and any other text as a name in the working directory.
PathOf(text) ==
    CASE text = <<"/data">> -> <<Anchor, <<"data">>>>
      [] text = <<"/scans">> -> <<Anchor, <<"scans">>>>
      [] text = <<"/data/out">> -> <<Anchor, <<"data">>, <<"out">>>>
      [] text = <<"/out">> -> <<Anchor, <<"out">>>>
      [] text = <<"/missing">> -> <<Anchor, <<"missing">>>>
      [] text = <<"/data/notes.txt">> -> <<Anchor, <<"data">>, <<"notes", ".", "txt">>>>
      [] OTHER -> Cwd \o <<text>>

\* lines 43-45: the lowered cells of the row, and where "path" is among them.
Lowered(row) == [i \in DOMAIN row |-> LowerSeq(Strip(row[i]))]
HasPathCell(row) == \E i \in DOMAIN row : Lowered(row)[i] = <<"path">>
PathIndex(row) == CHOOSE i \in DOMAIN row :
    /\ Lowered(row)[i] = <<"path">>
    /\ \A j \in 1..(i - 1) : Lowered(row)[j] # <<"path">>

DataRowStopsAtMissing(row, idx, acc, disk) ==
    IF acc.warnings # <<>> THEN acc
    ELSE IF idx > Len(row) THEN acc
    ELSE LET raw_path == Strip(row[idx])
         IN  IF raw_path = <<>> THEN acc
             ELSE IF ~IsDir(PathOf(raw_path), disk)
                  THEN [acc EXCEPT !.warnings = Append(@, raw_path)]
                  ELSE [acc EXCEPT !.directories = Append(@, PathOf(raw_path))]

\* lines 52-62: a data row; idx is the column, counted from 1.
DataRow(row, idx, acc, disk) ==
    IF idx > Len(row) THEN acc
    ELSE LET raw_path == Strip(row[idx])
         IN  IF raw_path = <<>> THEN acc
             ELSE IF ~IsDir(PathOf(raw_path), disk)
                  THEN [acc EXCEPT !.warnings = Append(@, raw_path)]
                  ELSE [acc EXCEPT !.directories = Append(@, PathOf(raw_path))]

\* lines 34-62: the loop over the rows.  acc holds header_seen,
\* path_column_index (0 for None, else counted from 1), directories and the
\* warnings printed.
RECURSIVE ReadRows(_, _, _)
ReadRows(rows, acc, disk) ==
    IF rows = <<>> THEN acc
    ELSE
    LET row == Head(rows)
        rest == Tail(rows)
    IN  IF row = <<>> THEN ReadRows(rest, acc, disk)
        ELSE IF StartsWithHash(Strip(row[1])) THEN ReadRows(rest, acc, disk)
        ELSE IF ~acc.header_seen
        THEN IF HasPathCell(row)
             THEN ReadRows(rest, [acc EXCEPT !.header_seen = TRUE,
                                             !.path_column_index = PathIndex(row)], disk)
             ELSE ReadRows(rest,
                           DataRow(row, 1, [acc EXCEPT !.header_seen = TRUE,
                                                       !.path_column_index = 1], disk),
                           disk)
        ELSE ReadRows(rest,
                      DataRow(row, IF acc.path_column_index = 0 THEN 1
                                   ELSE acc.path_column_index, acc, disk),
                      disk)

\* lines 29-66: directories empty stands for the SystemExit of line 65.
load_directories_from_csv(rows, disk) ==
    ReadRows(rows, [header_seen |-> FALSE, path_column_index |-> 0,
                    directories |-> <<>>, warnings |-> <<>>], disk)

-----------------------------------------------------------------------------
(* iter_candidate_files: Path.rglob("*") as a generator *)

Children(d, disk) == {p \in DOMAIN disk : Len(p) = Len(d) + 1 /\ IsPrefix(d, p)}

Item(op, d, left) == [op |-> op, dir |-> d, left |-> left]

\* An exhausted listing is left behind.
Live(item) == item.op \in {"visit", "descend"} \/ item.left # {}
Norm(work) == SelectSeq(work, Live)

Idle == <<>>
GenStart(root) == <<Item("visit", root, {})>>

\* lines 96-98
IsCandidateAnyKind(p, disk) ==
    LowerSeq(Suffix(PathName(p))) \in RASTER_IMAGE_EXTENSIONS

IsCandidate(p, disk) ==
    IsFile(p, disk) /\ LowerSeq(Suffix(PathName(p))) \in RASTER_IMAGE_EXTENSIONS

Scanning == pc \in {"prescan", "iterate"}

scanVars == <<fs, corrupt, args, environ, csvFile, root_dirs, rootIdx, total,
              converted, skipped, stdout, stderr, writes, fs0, firstRun, call,
              returned>>

\* rglob reaches a directory: its entries are listed now.
GenVisit ==
    /\ Scanning /\ gen # <<>> /\ Head(gen).op = "visit"
    /\ LET d == Head(gen).dir
       IN  gen' = Norm(<<Item("entries", d, Children(d, fs)), Item("descend", d, {})>>
                       \o Tail(gen))
    /\ UNCHANGED <<pc, candidates, file_path>>
    /\ UNCHANGED scanVars

\* The next listed entry, in the order the file system gave: it is yielded if
\* it passes lines 96-98.  list() collects it (line 248); the for loop of
\* line 259 runs its body on it.
GenEntry ==
    /\ Scanning /\ gen # <<>> /\ Head(gen).op = "entries"
    /\ \E p \in Head(gen).left :
        /\ gen' = Norm(<<[Head(gen) EXCEPT !.left = @ \ {p}]>> \o Tail(gen))
        /\ IF ~IsCandidate(p, fs)
           THEN UNCHANGED <<pc, candidates, file_path>>
           ELSE IF pc = "prescan"
                THEN candidates' = Append(candidates, p) /\ UNCHANGED <<pc, file_path>>
                ELSE file_path' = p /\ pc' = "body" /\ UNCHANGED candidates
    /\ UNCHANGED scanVars

\* The entries of a directory are done: it is listed again for its
\* subdirectories.
GenDescend ==
    /\ Scanning /\ gen # <<>> /\ Head(gen).op = "descend"
    /\ LET d == Head(gen).dir
           subs == {c \in Children(d, fs) : fs[c] = "dir"}
       IN  gen' = Norm(<<Item("subdirs", d, subs)>> \o Tail(gen))
    /\ UNCHANGED <<pc, candidates, file_path>>
    /\ UNCHANGED scanVars

GenSubdir ==
    /\ Scanning /\ gen # <<>> /\ Head(gen).op = "subdirs"
    /\ \E c \in Head(gen).left :
        gen' = Norm(<<Item("visit", c, {}), [Head(gen) EXCEPT !.left = @ \ {c}]>>
                    \o Tail(gen))
    /\ UNCHANGED <<pc, candidates, file_path>>
    /\ UNCHANGED scanVars

\* StopIteration: list() returns (line 248), or the for loop of line 259 ends.
GenExhausted ==
    /\ Scanning /\ gen = <<>>
    /\ pc' = IF pc = "prescan" THEN "listed" ELSE "roots"
    /\ UNCHANGED <<gen, candidates, file_path>>
    /\ UNCHANGED scanVars

-----------------------------------------------------------------------------
(* main *)

Line(kind, src, dst, counts) ==
    [kind |-> kind, src |-> src, dst |-> dst, root |-> rootIdx, counts |-> counts]

mainVars == <<fs, corrupt, args, environ, csvFile, fs0, firstRun, call, returned>>

\* lines 69-81: load_single_working_dir_from_env; empty stands for SystemExit.
load_single_working_dir_from_env ==
    LET working_dir == Strip(environ)
    IN  IF working_dir = <<>> THEN <<>>
        ELSE IF ~IsDir(PathOf(working_dir), fs) THEN <<>>
        ELSE <<PathOf(working_dir)>>

\* lines 220-240: the list of roots is resolved, or the program exits.
Start ==
    /\ pc = "start"
    /\ LET loaded ==
            IF args.csv
            THEN IF ~csvFile.exists
                 THEN [directories |-> <<>>, warnings |-> <<>>]
                 ELSE load_directories_from_csv(csvFile.rows, fs)
            ELSE [directories |-> load_single_working_dir_from_env, warnings |-> <<>>]
       IN  /\ root_dirs' = loaded.directories
           /\ stderr' = loaded.warnings
                        \o (IF loaded.directories = <<>> THEN <<<<"SystemExit">>>> ELSE <<>>)
           /\ pc' = IF loaded.directories = <<>> THEN "fatal" ELSE "roots"
    /\ total' = 0 /\ converted' = 0 /\ skipped' = 0
    /\ UNCHANGED <<rootIdx, gen, candidates, file_path, stdout, writes>>
    /\ UNCHANGED mainVars

\* lines 242-257: the next root; verbose lists its candidates first.
EnterRoot ==
    /\ pc = "roots" /\ rootIdx < Len(root_dirs)
    /\ rootIdx' = rootIdx + 1
    /\ gen' = GenStart(root_dirs[rootIdx + 1])
    /\ candidates' = <<>>
    /\ pc' = IF args.verbose THEN "prescan" ELSE "iterate"
    /\ UNCHANGED <<root_dirs, file_path, total, converted, skipped, stdout, stderr, writes>>
    /\ UNCHANGED mainVars

\* lines 249-255
VerboseStats ==
    /\ pc = "listed"
    /\ stdout' = stdout \cup {Line("Files", root_dirs[rootIdx], None, <<Len(candidates)>>)}
    /\ pc' = "loop"
    /\ UNCHANGED <<root_dirs, rootIdx, gen, candidates, file_path, total, converted,
                   skipped, stderr, writes>>
    /\ UNCHANGED mainVars

\* line 259, over the list of line 248
ListNext ==
    /\ pc = "loop"
    /\ IF candidates = <<>>
       THEN pc' = "roots" /\ UNCHANGED <<candidates, file_path>>
       ELSE /\ file_path' = Head(candidates)
            /\ candidates' = Tail(candidates)
            /\ pc' = "body"
    /\ UNCHANGED <<root_dirs, rootIdx, gen, total, converted, skipped, stdout, stderr, writes>>
    /\ UNCHANGED mainVars

AfterBody == IF args.verbose THEN "loop" ELSE "iterate"

DryRunIgnored == FALSE

\* line 266
DryRun == args.dry_run

\* lines 260-284: the body of the loop, for one candidate.  An exception of
\* convert_to_ocr_friendly is caught nowhere: it ends the program.
Body ==
    /\ pc = "body"
    /\ total' = total + 1
    /\ IF is_ocr_friendly(file_path)
       THEN /\ skipped' = skipped + 1
            /\ stdout' = stdout \cup {Line("SKIP (already OCR-friendly)", file_path, None, <<>>)}
            /\ pc' = AfterBody
            /\ UNCHANGED <<fs, converted, stderr, writes>>
       ELSE IF DryRun
       THEN /\ stdout' = stdout \cup {Line("CONVERT (dry-run)", file_path, None, <<>>)}
            /\ pc' = AfterBody
            /\ UNCHANGED <<fs, converted, skipped, stderr, writes>>
       ELSE LET r == convert_to_ocr_friendly(file_path, args.format,
                                             root_dirs[rootIdx], args.output_dir,
                                             fs, corrupt)
            IN  IF r.raised
                THEN /\ pc' = "crashed"
                     /\ stderr' = Append(stderr, <<"Traceback">>)
                     /\ fs' = r.disk
                     /\ UNCHANGED <<converted, skipped, stdout, writes>>
                ELSE /\ pc' = AfterBody
                     /\ fs' = r.disk
                     /\ IF r.changed
                        THEN /\ converted' = converted + 1
                             /\ stdout' = stdout \cup {Line("CONVERTED", file_path, r.path, <<>>)}
                             /\ writes' = writes \cup
                                    {[src |-> file_path, dst |-> r.path, root |-> rootIdx,
                                      existed |-> Exists(r.path, fs)]}
                             /\ UNCHANGED skipped
                        ELSE /\ skipped' = skipped + 1
                             /\ stdout' = stdout \cup {Line("SKIP", file_path, None, <<>>)}
                             /\ UNCHANGED <<converted, writes>>
                     /\ UNCHANGED stderr
    /\ file_path' = None
    /\ UNCHANGED <<root_dirs, rootIdx, gen, candidates>>
    /\ UNCHANGED <<corrupt, args, environ, csvFile, fs0, firstRun, call, returned>>

\* lines 286-289
Summary ==
    /\ pc = "roots" /\ rootIdx = Len(root_dirs)
    /\ stdout' = stdout \cup {Line("Done", None, None, <<total, converted, skipped>>)}
    /\ pc' = "done"
    /\ UNCHANGED <<root_dirs, rootIdx, gen, candidates, file_path, total, converted,
                   skipped, stderr, writes>>
    /\ UNCHANGED mainVars

Next ==
    \/ Start
    \/ EnterRoot
    \/ GenVisit
    \/ GenEntry
    \/ GenDescend
    \/ GenSubdir
    \/ GenExhausted
    \/ VerboseStats
    \/ ListNext
    \/ Body
    \/ Summary

-----------------------------------------------------------------------------
(* the unit driver: the functions called on their own *)

MaxCalls == 3

Result(fn, r) ==
    [fn |-> fn, path |-> r.path, changed |-> r.changed, raised |-> r.raised,
     resolved |-> r.resolved, opened |-> r.opened]

apiVars == <<corrupt, args, environ, csvFile, root_dirs, rootIdx, gen, candidates,
             file_path, total, converted, skipped, stdout, stderr, writes, fs0,
             firstRun>>

CanCall == pc \in {"api", "converted"} /\ Len(returned) < MaxCalls

\* derive_output_path(src, root_dir, out_dir, target_ext)
Derive ==
    /\ CanCall
    /\ returned' = Append(returned,
          Result("derive",
                 [path |-> derive_output_path(call.src, call.root_dir, call.out_dir,
                                              call.target_ext, fs),
                  changed |-> FALSE, raised |-> FALSE, resolved |-> TRUE,
                  opened |-> FALSE]))
    /\ call' = [call EXCEPT !.before = fs]
    /\ pc' = "derived"
    /\ UNCHANGED fs
    /\ UNCHANGED apiVars

\* The caller writes the file at the path it was given (lines 176-177).
Touch ==
    /\ pc = "derived"
    /\ LET path == returned[Len(returned)].path
       IN  /\ MkdirOk(Parent(path), fs)
           /\ SaveOk(path, Mkdir(Parent(path), fs))
           /\ fs' = Save(path, Mkdir(Parent(path), fs))
    /\ pc' = "api"
    /\ UNCHANGED <<call, returned>>
    /\ UNCHANGED apiVars

\* convert_to_ocr_friendly(src, output_format, root_dir=..., output_dir=...)
Convert ==
    /\ CanCall
    /\ LET r == convert_to_ocr_friendly(call.src, call.output_format, call.root_dir,
                                        call.out_dir, fs, corrupt)
       IN  /\ returned' = Append(returned, Result("convert", r))
           /\ fs' = r.disk
    /\ call' = [call EXCEPT !.before = fs]
    /\ pc' = "converted"
    /\ UNCHANGED apiVars

NextApi == Derive \/ Touch \/ Convert

-----------------------------------------------------------------------------
(* the initial states *)

MaxFiles == 3
MaxApiFiles == 2
MaxRows == 3

P(names) == <<Anchor>> \o names
N(stem, ext) == <<stem, ".", ext>>

Data == P(<< <<"data">> >>)
Scans == P(<< <<"scans">> >>)
Out == P(<< <<"out">> >>)
DataOut == P(<< <<"data">>, <<"out">> >>)

File(p) == <<p, "file">>
Dir(p) == <<p, "dir">>
Other(p) == <<p, "other">>

\* The disk holding the entries, the directories above them and the
\* directories in dirs.
Disk(entries, dirs) ==
    LET paths == UNION {Prefixes(e[1]) : e \in entries} \cup UNION {Prefixes(d) : d \in dirs}
    IN  [q \in paths |->
            IF \E e \in entries : e[1] = q
            THEN (CHOOSE e \in entries : e[1] = q)[2]
            ELSE "dir"]

UpTo(U, n) == {S \in SUBSET U : Cardinality(S) <= n}

NoCall == [src |-> None, root_dir |-> None, out_dir |-> None, target_ext |-> <<>>,
           output_format |-> "PNG", before |-> <<>>]
NoRun == <<>>

Bad == P(<< <<"data">>, N("bad", "jpg") >>)

\* Files to convert, files that are fine, outputs of an earlier run.
ConvFiles ==
    {File(P(<< <<"data">>, N("photo", "jpg") >>)),
     File(P(<< <<"data">>, N("photo", "bmp") >>)),
     File(P(<< <<"data">>, <<"photo", "_", "1", ".", "jpg">> >>)),
     File(P(<< <<"data">>, <<"sub">>, N("photo", "jpg") >>)),
     File(P(<< <<"data">>, N("scan", "png") >>)),
     File(Bad),
     File(P(<< <<"scans">>, N("photo", "jpg") >>)),
     File(P(<< <<"out">>, N("photo", "png") >>)),
     File(P(<< <<"data">>, <<"out">>, N("photo", "png") >>))}

\* What a scan has to tell apart.
ScanFiles ==
    {File(P(<< <<"data">>, N("photo", "jpg") >>)),
     File(P(<< <<"data">>, N("shot", "JPG") >>)),
     File(P(<< <<"data">>, N("scan", "tif") >>)),
     File(P(<< <<"data">>, N("notes", "txt") >>)),
     File(P(<< <<"data">>, <<"noext">> >>)),
     File(P(<< <<"data">>, <<".", "jpg">> >>)),
     Other(P(<< <<"data">>, N("pipe", "jpg") >>)),
     Dir(P(<< <<"data">>, N("album", "jpg") >>)),
     File(P(<< <<"data">>, <<"sub">>, <<"deep">>, N("page", "webp") >>)),
     File(P(<< <<"data">>, <<"sub">>, N("page", "png") >>))}

Cell(t) == <<t>>
ManifestRows ==
    {<<>>,
     << <<" ">> >>,
     << <<"#", "/data">> >>,
     << <<" ", "Path", " ">> >>,
     << Cell("name"), Cell("PATH") >>,
     << Cell("/data") >>,
     << <<" ", "/scans", " ">> >>,
     << Cell("/missing") >>,
     << Cell("/data/notes.txt") >>,
     << Cell("x"), Cell("/scans") >>}

RECURSIVE SeqsUpTo(_, _)
SeqsUpTo(S, n) ==
    IF n = 0 THEN {<<>>}
    ELSE LET shorter == SeqsUpTo(S, n - 1)
         IN  shorter \cup {Append(q, x) : q \in shorter, x \in S}

Args(format, dry_run, verbose, csv, output_dir) ==
    [format |-> format, dry_run |-> dry_run, verbose |-> verbose, csv |-> csv,
     output_dir |-> output_dir]

\* Conversions: one or two roots, an output directory outside or inside a root.
InitConv ==
    /\ \E S \in UpTo(ConvFiles, MaxFiles) :
        /\ fs = Disk(S, {Data, Scans})
        /\ corrupt = {Bad} \cap {e[1] : e \in S}
    /\ \E f \in {"PNG", "TIFF"}, d \in BOOLEAN, v \in BOOLEAN, o \in {Out, DataOut} :
        \/ /\ args = Args(f, d, v, FALSE, o)
           /\ environ = <<"/data">>
           /\ csvFile = NoFile
        \/ /\ args = Args(f, d, v, TRUE, o)
           /\ environ = <<>>
           /\ csvFile \in {Manifest(<< <<Cell("/data")>>, <<Cell("/scans")>> >>),
                           Manifest(<< <<Cell("/scans")>>, <<Cell("/data")>> >>)}

\* Scans: one root, any small tree under it, nothing written.
InitScan ==
    /\ \E S \in UpTo(ScanFiles, MaxFiles) : fs = Disk(S, {Data})
    /\ corrupt = {}
    /\ \E v \in BOOLEAN : args = Args("PNG", TRUE, v, FALSE, Out)
    /\ environ = <<"/data">>
    /\ csvFile = NoFile

\* Configurations: any short manifest, or none, or WORKING_DIR.
InitConfig ==
    /\ fs = Disk({File(P(<< <<"data">>, N("photo", "jpg") >>)),
                  File(P(<< <<"data">>, N("notes", "txt") >>)),
                  File(P(<< <<"scans">>, N("scan", "png") >>))}, {Data, Scans})
    /\ corrupt = {}
    /\ \/ /\ args = Args("PNG", TRUE, FALSE, TRUE, Out)
          /\ environ = <<>>
          /\ csvFile \in {Manifest(rows) : rows \in SeqsUpTo(ManifestRows, MaxRows)}
                          \cup {NoFile}
       \/ /\ args = Args("PNG", TRUE, FALSE, FALSE, Out)
          /\ environ \in {<<>>, <<" ">>, <<"/missing">>, <<"/data/notes.txt">>, <<" ", "/scans">>}
          /\ csvFile = NoFile

InitRun ==
    /\ pc = "start"
    /\ root_dirs = <<>> /\ rootIdx = 0
    /\ gen = Idle /\ candidates = <<>> /\ file_path = None
    /\ total = 0 /\ converted = 0 /\ skipped = 0
    /\ stdout = {} /\ stderr = <<>> /\ writes = {}
    /\ fs0 = fs /\ firstRun = NoRun
    /\ call = NoCall /\ returned = <<>>

Init == (InitConv \/ InitScan \/ InitConfig) /\ InitRun

Spec == Init /\ [][Next]_vars

\* The functions called on their own: one source, resolved or converted
\* again and again with the same arguments.
ApiFiles ==
    {File(P(<< <<"data">>, N("photo", "jpg") >>)),
     File(P(<< <<"data">>, N("photo", "png") >>)),
     File(P(<< <<"data">>, <<"photo", "_", "1", ".", "png">> >>)),
     File(P(<< <<"data">>, <<"photo", "_", "2", ".", "png">> >>)),
     File(P(<< <<"out">>, N("photo", "png") >>)),
     File(P(<< <<"out">>, <<"photo", "_", "1", ".", "png">> >>)),
     File(P(<< <<"out">>, <<"sub">>, N("photo", "png") >>))}

ApiSources ==
    {P(<< <<"data">>, N("photo", "jpg") >>),
     P(<< <<"data">>, <<"sub">>, N("photo", "jpg") >>),
     P(<< <<"data">>, N("photo", "png") >>),
     P(<< <<"scans">>, N("photo", "jpg") >>),
     << N("photo", "jpg") >>}

InitApi ==
    /\ \E S \in UpTo(ApiFiles, MaxApiFiles) : fs = Disk(S, {Data})
    /\ corrupt = {}
    /\ \E src \in ApiSources, root \in {None, Data}, out \in {None, Out, Data},
          ext \in {Ext("png"), <<"png">>, Ext("tiff")} :
        call = [src |-> src, root_dir |-> root, out_dir |-> out, target_ext |-> ext,
                output_format |-> IF ext = Ext("tiff") THEN "TIFF" ELSE "PNG",
                before |-> <<>>]
    /\ returned = <<>>
    /\ pc = "api"
    /\ args = Args("PNG", FALSE, FALSE, FALSE, None)
    /\ environ = <<>> /\ csvFile = NoFile
    /\ root_dirs = <<>> /\ rootIdx = 0
    /\ gen = Idle /\ candidates = <<>> /\ file_path = None
    /\ total = 0 /\ converted = 0 /\ skipped = 0
    /\ stdout = {} /\ stderr = <<>> /\ writes = {}
    /\ fs0 = fs /\ firstRun = NoRun

SpecApi == InitApi /\ [][NextApi]_vars

\* The candidates the run has reported on, each with its root.
PerFileLines ==
    {<<l.root, l.src>> : l \in {m \in stdout : m.kind \in
        {"SKIP (already OCR-friendly)", "CONVERT (dry-run)", "CONVERTED", "SKIP"}}}

\* A second run from the disk the first run started on, with the same
\* command line but for --verbose.
Restart ==
    /\ pc = "done" /\ firstRun = NoRun
    /\ firstRun' = <<[verbose |-> args.verbose,
                      counts |-> <<total, converted, skipped>>,
                      processed |-> PerFileLines]>>
    /\ args' = [args EXCEPT !.verbose = ~@]
    /\ fs' = fs0
    /\ pc' = "start"
    /\ root_dirs' = <<>> /\ rootIdx' = 0
    /\ gen' = Idle /\ candidates' = <<>> /\ file_path' = None
    /\ total' = 0 /\ converted' = 0 /\ skipped' = 0
    /\ stdout' = {} /\ stderr' = <<>> /\ writes' = {}
    /\ UNCHANGED <<corrupt, environ, csvFile, fs0, call, returned>>

InitTwoRuns == InitConv /\ InitRun

SpecTwoRuns == InitTwoRuns /\ [][Next \/ Restart]_vars

\* The program and the functions called on their own.
InitAll == Init \/ InitApi

SpecAll == InitAll /\ [][Next \/ NextApi]_vars

-----------------------------------------------------------------------------
(* the claims about the resolver and the normalizer *)

\* The arguments every call of the driver is made with.
CallCandidate == Candidate(call.src, call.root_dir, call.out_dir, call.target_ext)

\* The resolutions whose path was created before the next call: those of
\* derive_output_path, and those of a conversion that wrote its file.
IsResolution(r) == r.fn = "derive" \/ r.changed
Resolutions == SelectSeq(returned, IsResolution)

NameBound == Cardinality(DOMAIN fs) + 1

\* The disambiguator of a returned path: 0 for the candidate itself.
IdxOf(path) ==
    IF path = CallCandidate THEN 0
    ELSE IF \E k \in 1..NameBound : path = WithIdx(CallCandidate, k)
         THEN CHOOSE k \in 1..NameBound : path = WithIdx(CallCandidate, k)
         ELSE -1

\* The disambiguators handed out, in the order of the calls.
IsNumbered(r) == IdxOf(r.path) # 0
Numbered == SelectSeq(Resolutions, IsNumbered)

\* C1, as the spec has it: derive_output_path returns a path that does not
\* exist, the candidate itself when that is free and else the candidate with
\* the smallest free _k; and with every returned path created before the next
\* call, no path comes twice and the disambiguators are 1, 2, 3, ...
C1_Original ==
    \A n \in DOMAIN Numbered : IdxOf(Numbered[n].path) = n

\* C1, amended: derive_output_path returns a path that does not exist: the
\* candidate itself when that is free, and else the candidate with _k for the
\* smallest k >= 1 whose path is free.  With every returned path created
\* before the next call, no path is returned twice and the disambiguators
\* strictly increase; they are 1, 2, 3, ... when no path candidate_k existed
\* before the first call.
C1_CollisionRule ==
    /\ pc = "derived" =>
        LET r == returned[Len(returned)].path
            c == CallCandidate
        IN  /\ ~Exists(r, fs)
            /\ ~Exists(c, fs) => r = c
            /\ Exists(c, fs) =>
                \E k \in 1..NameBound :
                    /\ r = WithIdx(c, k)
                    /\ \A j \in 1..(k - 1) : Exists(WithIdx(c, j), fs)
    /\ \A i, j \in DOMAIN Resolutions :
        i < j => /\ Resolutions[i].path # Resolutions[j].path
                 /\ IdxOf(Resolutions[i].path) < IdxOf(Resolutions[j].path)
    /\ (\A k \in 1..NameBound : ~Exists(WithIdx(CallCandidate, k), fs0)) =>
        \A n \in DOMAIN Numbered : IdxOf(Numbered[n].path) = n

\* The disambiguator went 1, then 2.
C1_Witness ==
    /\ pc = "derived"
    /\ Len(Numbered) >= 2
    /\ IdxOf(Numbered[1].path) = 1
    /\ IdxOf(Numbered[2].path) = 2
    /\ returned[Len(returned)].path = WithIdx(CallCandidate, 2)

\* A path relative to a directory it is under.
Under(base, p) == Len(base) < Len(p) /\ \A i \in 1..Len(base) : p[i] = base[i]
RelTo(p, base) == [i \in 1..(Len(p) - Len(base)) |-> p[Len(base) + i]]

\* The source's place under the root, with the target extension.
Mirrored == WithSuffix(RelTo(call.src, call.root_dir), NormExt(call.target_ext))

MirrorCase ==
    /\ pc = "derived"
    /\ call.out_dir # None /\ call.root_dir # None
    /\ Under(call.root_dir, call.src)

\* C2, as the spec has it: with an output directory and a root directory set,
\* the destination relative to the output directory is the source relative to
\* the root directory with only the extension changed.
C2_Original ==
    MirrorCase => RelTo(returned[Len(returned)].path, call.out_dir) = Mirrored

\* C2, amended: with an output directory and a root directory set and the
\* source an absolute path under the root, the destination lies under the
\* output directory in the directory the source has under the root and has
\* the target extension; relative to the output directory it is the source
\* relative to the root with only the extension changed when that path is
\* free and is not the source itself.
C2_MirroredOutput ==
    MirrorCase =>
        LET r == returned[Len(returned)].path
        IN  /\ Under(call.out_dir, r)
            /\ Parent(RelTo(r, call.out_dir)) = Parent(RelTo(call.src, call.root_dir))
            /\ Suffix(PathName(r)) = NormExt(call.target_ext)
            /\ (~Exists(call.out_dir \o Mirrored, fs) /\ call.out_dir \o Mirrored # call.src)
                => RelTo(r, call.out_dir) = Mirrored

\* A source in a subdirectory of the root came out in that subdirectory of
\* the output directory.
C2_Witness ==
    /\ MirrorCase
    /\ Len(call.src) = Len(call.root_dir) + 2
    /\ RelTo(returned[Len(returned)].path, call.out_dir) = Mirrored
    /\ Len(Mirrored) = 2

FriendlyByContract(p) ==
    LowerSeq(Suffix(PathName(p))) \in
        {<<".", "png">>, <<".", "tif">>, <<".", "tiff">>, <<".", "pbm">>,
         <<".", "pgm">>, <<".", "ppm">>}

\* C5: for a source the Classifier reports as OCR-friendly,
\* convert_to_ocr_friendly returns the source and changed = false, and it
\* resolves no destination, opens no image, and leaves the disk as it was;
\* in a run such a file is never converted and never written over, and is
\* counted as already_ok.
C5_NoOpLaw ==
    /\ (pc = "converted" /\ FriendlyByContract(call.src)) =>
        LET r == returned[Len(returned)]
        IN  /\ r.path = call.src /\ ~r.changed /\ ~r.raised
            /\ ~r.resolved /\ ~r.opened
            /\ fs = call.before
    /\ \A l \in stdout :
        (l.kind \in {"SKIP (already OCR-friendly)", "CONVERT (dry-run)", "CONVERTED"}
            /\ FriendlyByContract(l.src))
        => /\ l.kind = "SKIP (already OCR-friendly)"
           /\ fs[l.src] = "file"
           /\ \A w \in writes : w.src # l.src /\ (w.dst = l.src => ~w.existed)
    /\ pc \in {"roots", "done"} =>
        skipped = Cardinality({l \in stdout : l.kind = "SKIP (already OCR-friendly)"})

\* An OCR-friendly file that is on the disk was handed to the normalizer.
C5_Witness ==
    /\ pc = "converted"
    /\ FriendlyByContract(call.src)
    /\ IsFile(call.src, fs)
    /\ returned[Len(returned)].fn = "convert"

\* C6: derive_output_path never returns the source path; when the computed
\* destination is the source, the token _ocr is put into the stem before the
\* extension, and the numbering after it does not lead back to the source.
C6_NeverTheSource ==
    \A i \in DOMAIN returned :
        LET r == returned[i]
            stem == Stem(PathName(call.src))
        IN  (r.fn = "derive" \/ r.changed) =>
            /\ r.path # call.src
            /\ Computed(call.src, call.root_dir, call.out_dir, call.target_ext) = call.src
                => /\ Parent(r.path) = Parent(call.src)
                   /\ SubSeq(PathName(r.path), 1, Len(stem) + 2) = stem \o <<"_", "ocr">>
                   /\ Suffix(PathName(r.path)) = Suffix(PathName(call.src))

\* The computed destination was the source; _ocr was inserted and then numbered.
C6_Witness ==
    /\ Len(returned) >= 2
    /\ returned[1].fn = "derive" /\ returned[2].fn = "derive"
    /\ Computed(call.src, call.root_dir, call.out_dir, call.target_ext) = call.src
    /\ returned[1].path = WithName(call.src, <<"photo", "_", "ocr", ".", "png">>)
    /\ returned[2].path = WithName(call.src, <<"photo", "_", "ocr", "_", "1", ".", "png">>)

-----------------------------------------------------------------------------
(* the claims about the scanner and the run *)

SupportedBySpec ==
    {<<".", "jpg">>, <<".", "jpeg">>, <<".", "png">>, <<".", "tiff">>, <<".", "bmp">>,
     <<".", "webp">>, <<".", "heic">>, <<".", "heif">>}

RegularFilesUnder(root, disk, exts) ==
    {p \in DOMAIN disk :
        /\ disk[p] = "file"
        /\ Under(root, p)
        /\ LowerSeq(Suffix(PathName(p))) \in exts}

Range(q) == {q[i] : i \in DOMAIN q}

\* The candidates the loop of line 259 was given for the root it is at.
Processed(i) ==
    {l.src : l \in {m \in stdout : m.root = i /\ m.kind \in
        {"SKIP (already OCR-friendly)", "CONVERT (dry-run)", "CONVERTED", "SKIP"}}}

ScanIs(exts) ==
    /\ pc = "listed" =>
        /\ Range(candidates) = RegularFilesUnder(root_dirs[rootIdx], fs, exts)
        /\ Len(candidates) = Cardinality(Range(candidates))
    /\ (pc = "roots" /\ rootIdx >= 1 /\ args.dry_run) =>
        Processed(rootIdx) = RegularFilesUnder(root_dirs[rootIdx], fs, exts)

\* C9, as the spec has it: iter_candidate_files yields exactly the regular
\* files under the root, at any depth, whose extension is, in any case, one of
\* JPG, JPEG, PNG, TIFF, BMP, WEBP, HEIC, HEIF.
C9_Original == ScanIs(SupportedBySpec)

\* C9, amended: iter_candidate_files yields exactly the regular files under
\* the root, at any depth, whose extension is, in any case, one of JPG, JPEG,
\* PNG, TIF, TIFF, BMP, WEBP, HEIC, HEIF; no directory, no file that is not a
\* regular file, no file with another extension.
C9_ScannerExact == ScanIs(SupportedBySpec \cup {<<".", "tif">>})

\* A scan that went three directories deep and passed over a non-regular
\* file with a raster extension.
C9_Witness ==
    /\ pc = "listed"
    /\ \E p \in Range(candidates) : Len(p) = Len(root_dirs[rootIdx]) + 3
    /\ \E q \in DOMAIN fs : fs[q] = "other" /\ Suffix(PathName(q)) = <<".", "jpg">>

Terminated == pc \in {"done", "crashed", "fatal"}
DecodeFailed == \E i \in DOMAIN stderr : stderr[i] = <<"Traceback">>
SummaryLines == {l \in stdout : l.kind = "Done"}

\* C3: a candidate that cannot be decoded does not stop the run: the
\* candidates after it are processed and the summary line is printed.
C3_FailureIsolation ==
    (Terminated /\ DecodeFailed) =>
        /\ SummaryLines # {}
        /\ \A i \in DOMAIN root_dirs :
            RegularFilesUnder(root_dirs[i], fs0, SupportedBySpec \cup {<<".", "tif">>})
                \subseteq Processed(i) \cup corrupt

\* The candidates of the roots, a root listed twice counted twice.
AllCandidates(disk) ==
    UNION {{<<i, p>> : p \in RegularFilesUnder(root_dirs[i], disk,
                                               SupportedBySpec \cup {<<".", "tif">>})}
           : i \in DOMAIN root_dirs}

\* C4: a dry run writes nothing, no file and no directory, and its summary
\* reports scanned = the number of candidates, converted = 0 and already_ok =
\* the number of candidates that are OCR-friendly.
C4_DryRun ==
    args.dry_run =>
        /\ fs = fs0 /\ writes = {} /\ converted = 0
        /\ pc = "done" =>
            SummaryLines = {Line("Done", None, None,
                <<Cardinality(AllCandidates(fs0)), 0,
                  Cardinality({c \in AllCandidates(fs0) : FriendlyByContract(c[2])})>>)}

\* One JPEG and one PNG: scanned=2, converted=0, already_ok=1.
C4_Witness ==
    /\ args.dry_run /\ pc = "done"
    /\ \E l \in stdout : l.kind = "Done" /\ l.counts = <<2, 0, 1>>
    /\ \E l \in stdout : l.kind = "CONVERT (dry-run)" /\ Suffix(PathName(l.src)) = <<".", "jpg">>
    /\ \E l \in stdout : l.kind = "SKIP (already OCR-friendly)"

\* The manifest as the spec describes it: the first row that is neither blank
\* nor a comment is a header if one of its cells is "path"; the entries are
\* the cells of that column (the first, without a header) in the rows after.
Significant(row) == row # <<>> /\ ~StartsWithHash(Strip(row[1]))
IsHeader(row) == \E i \in DOMAIN row : LowerSeq(Strip(row[i])) = <<"path">>
Listed(rows) ==
    LET sig == SelectSeq(rows, Significant)
    IN  IF sig = <<>> THEN <<>>
        ELSE LET col == IF IsHeader(sig[1])
                        THEN CHOOSE i \in DOMAIN sig[1] :
                                /\ LowerSeq(Strip(sig[1][i])) = <<"path">>
                                /\ \A j \in 1..(i - 1) : LowerSeq(Strip(sig[1][j])) # <<"path">>
                        ELSE 1
                 data == IF IsHeader(sig[1]) THEN Tail(sig) ELSE sig
                 HasEntry(row) == Len(row) >= col /\ Strip(row[col]) # <<>>
                 with == SelectSeq(data, HasEntry)
             IN  [i \in DOMAIN with |-> Strip(with[i][col])]

IsListedDir(text) == PathOf(text) \in DOMAIN fs0 /\ fs0[PathOf(text)] = "dir"
IsListedMissing(text) == ~IsListedDir(text)

NothingScanned ==
    rootIdx = 0 /\ total = 0 /\ stdout = {} /\ gen = Idle /\ fs = fs0 /\ root_dirs = <<>>

C8_VerbosityNoEffect ==
    (pc = "done" /\ firstRun # NoRun) =>
        /\ firstRun[1].counts = <<total, converted, skipped>>
        /\ firstRun[1].processed = PerFileLines

\* C10: every file written goes to a path where nothing was when its
\* conversion started: no file that was on the disk at the start is replaced
\* or changed, and no two conversions of a run write to the same path.
C10_NoOverwrite ==
    /\ \A w \in writes :
        /\ ~w.existed
        /\ w.dst \notin DOMAIN fs0
        /\ w.dst \in DOMAIN fs /\ fs[w.dst] = "file"
    /\ \A v, w \in writes : v # w => v.dst # w.dst
    /\ \A p \in DOMAIN fs0 : p \in DOMAIN fs /\ fs[p] = fs0[p]

\* Two roots hold a file at the same relative path: the second conversion
\* was numbered.
C10_Witness ==
    /\ pc = "done"
    /\ \E v, w \in writes :
        /\ v.root = 1 /\ w.root = 2
        /\ RelTo(v.src, root_dirs[1]) = RelTo(w.src, root_dirs[2])
        /\ w.dst = WithIdx(v.dst, 1)

====
